---------------------------- MODULE Spec2Model ----------------------------
(***************************************************************************)
(* Model of pennylane/variable.py: the VariableRef class, its class-wide   *)
(* value tables (positional_arg_values, kwarg_values), construction,       *)
(* scalar composition (__neg__, __mul__, __rmul__, __truediv__), equality  *)
(* (__eq__) and value resolution (val).                                    *)
(*                                                                         *)
(* Python numbers.  The scalars the code multiplies and divides are Python *)
(* ints and floats.  They are modelled by one numeric type, the binary64   *)
(* values: a record [s, m, e] standing for s * m * 2^e, where m is the odd *)
(* part of the magnitude written as a sequence of 13-bit limbs, the least  *)
(* significant limb first.  Small Python ints are exactly such values, int * int of     *)
(* small ints is exact, and int / int is the correctly rounded quotient,   *)
(* so arithmetic and == on this type agree with Python's as long as the    *)
(* magnitudes stay below 2^53 and exponents stay in the normal range (they *)
(* do within the bounds below).  The sign of a zero is not kept: Python's  *)
(* ==, *, / and unary - cannot tell 0, 0.0 and -0.0 apart.                 *)
(***************************************************************************)
EXTENDS Integers, Sequences, FiniteSets, TLC

VARIABLES
    positional_arg_values,  \* VariableRef.positional_arg_values (class attribute)
    kwarg_values,           \* VariableRef.kwarg_values (class attribute)
    heap,                   \* the VariableRef instances created so far, by identity
    last,                   \* the latest call and what it returned or raised
    runs                    \* the executions of one template: position and results

vars == <<positional_arg_values, kwarg_values, heap, last, runs>>

\* Significand width of a Python float (IEEE 754 binary64).
MantBits == 53

\* Width of one limb of a significand; a product of two limbs fits an integer.
LimbBits == 13

Base == 2 ^ LimbBits

----------------------------------------------------------------------------
(* Naturals as limb sequences, least significant limb first.               *)

Abs(n) == IF n < 0 THEN -n ELSE n

RECURSIVE NatLimbs(_)
NatLimbs(n) == IF n = 0 THEN <<>> ELSE <<n % Base>> \o NatLimbs(n \div Base)

RECURSIVE LimbsNat(_)
LimbsNat(l) == IF l = <<>> THEN 0 ELSE l[1] + Base * LimbsNat(Tail(l))

\* l without its high zero limbs.
Trim(l) ==
    IF \A i \in 1..Len(l) : l[i] = 0 THEN <<>>
    ELSE SubSeq(l, 1, CHOOSE i \in 1..Len(l) :
                          l[i] # 0 /\ \A j \in (i+1)..Len(l) : l[j] = 0)

\* Number of significant bits of the natural l (l trimmed).
BitLen(l) ==
    IF l = <<>> THEN 0
    ELSE LimbBits * (Len(l) - 1)
           + CHOOSE b \in 1..LimbBits : 2^(b-1) <= l[Len(l)] /\ l[Len(l)] < 2^b

\* Number of zero bits below the lowest 1 of the natural l (l # 0).
TrailingZeros(l) ==
    LET j == CHOOSE i \in 1..Len(l) : l[i] # 0 /\ \A h \in 1..(i-1) : l[h] = 0
    IN  LimbBits * (j - 1)
          + CHOOSE z \in 0..(LimbBits - 1) : l[j] % 2^(z+1) = 2^z

\* floor(l / 2^n).
ShiftRight(l, n) ==
    LET q == n \div LimbBits
        r == n % LimbBits
    IN  Trim([i \in 1..(Len(l) - q) |->
                (l[i + q] \div 2^r)
                + (IF i + q + 1 <= Len(l)
                   THEN (l[i + q + 1] % 2^r) * 2^(LimbBits - r) ELSE 0)])

\* Bit i of l, counting from 1 at the least significant end.
BitAt(l, i) == (l[(i - 1) \div LimbBits + 1] \div 2^((i - 1) % LimbBits)) % 2

\* l mod 2^n = 0.
LowBitsZero(l, n) ==
    /\ \A i \in 1..(n \div LimbBits) : l[i] = 0
    /\ n % LimbBits # 0 => l[n \div LimbBits + 1] % 2^(n % LimbBits) = 0

\* l + 1.
IncLimbs(l) ==
    IF \A i \in 1..Len(l) : l[i] = Base - 1
    THEN [i \in 1..(Len(l) + 1) |-> IF i = Len(l) + 1 THEN 1 ELSE 0]
    ELSE LET j == CHOOSE i \in 1..Len(l) :
                      l[i] # Base - 1 /\ \A h \in 1..(i-1) : l[h] = Base - 1
         IN  [i \in 1..Len(l) |-> IF i < j THEN 0 ELSE IF i = j THEN l[i] + 1 ELSE l[i]]

\* Carry propagation over column sums: cols[i] is the weight-Base^(i-1) column.
RECURSIVE Carry(_, _, _)
Carry(cols, i, c) ==
    IF i > Len(cols)
    THEN IF c = 0 THEN <<>> ELSE <<c % Base>> \o Carry(cols, i, c \div Base)
    ELSE <<(cols[i] + c) % Base>> \o Carry(cols, i + 1, (cols[i] + c) \div Base)

RECURSIVE SumTo(_, _)
SumTo(f, n) == IF n = 0 THEN 0 ELSE f[n] + SumTo(f, n - 1)

\* Exact product of two naturals.
MulLimbs(a, b) ==
    IF a = <<>> \/ b = <<>> THEN <<>>
    ELSE Carry([j \in 1..(Len(a) + Len(b) - 1) |->
                  SumTo([i \in 1..Len(a) |->
                           IF j - i + 1 \in 1..Len(b) THEN a[i] * b[j - i + 1] ELSE 0],
                        Len(a))], 1, 0)

\* Long division of the natural d by the positive integer k, from limb i
\* down: q holds the quotient's limbs 1..i, r the remainder.
RECURSIVE LongDiv(_, _, _, _)
LongDiv(d, k, i, rem) ==
    IF i = 0 THEN [q |-> <<>>, r |-> rem]
    ELSE LET t    == Base * rem + d[i]
             rest == LongDiv(d, k, i - 1, t % k)
         IN  [q |-> Append(rest.q, t \div k), r |-> rest.r]

----------------------------------------------------------------------------
(* Python numbers as binary64 values.                                      *)

NumZero == [t |-> "num", s |-> 0, m |-> <<>>, e |-> 0]

\* The canonical record of s * l * 2^e: odd significand, no high zero limb.
Canon(s, l, e) ==
    IF Trim(l) = <<>> \/ s = 0 THEN NumZero
    ELSE [t |-> "num", s |-> s, m |-> ShiftRight(l, TrailingZeros(l)),
          e |-> e + TrailingZeros(l)]

\* Round s * l * 2^e (plus a nonzero tail below it when sticky) to MantBits
\* significant bits, ties to even: IEEE 754 roundTiesToEven.
Round(s, l, e, sticky) ==
    LET drop == BitLen(Trim(l)) - MantBits
    IN  IF drop <= 0 THEN Canon(s, l, e)
        ELSE LET head  == ShiftRight(l, drop)
                 guard == BitAt(l, drop)
                 tail  == sticky \/ ~LowBitsZero(l, drop - 1)
                 up    == guard = 1 /\ (tail \/ head[1] % 2 = 1)
             IN  Canon(s, IF up THEN IncLimbs(head) ELSE head, e + drop)

\* The Python int n.
Num(n) == Canon(IF n < 0 THEN -1 ELSE 1, NatLimbs(Abs(n)), 0)

IsNum(x) == x.t = "num"

NumNeg(x) == [x EXCEPT !.s = -x.s]

NumMul(x, y) == Round(x.s * y.s, MulLimbs(x.m, y.m), x.e + y.e, FALSE)

\* Limbs of zeros put below the dividend, so that the quotient has more than
\* MantBits + 1 bits for every divisor below 2^17.
DivShift == 6

\* x / y for y # 0; the divisor's significand is an integer below 2^17.
NumDiv(x, y) ==
    IF x.s = 0 THEN NumZero
    ELSE LET d  == [i \in 1..DivShift |-> 0] \o x.m
             qr == LongDiv(d, LimbsNat(y.m), Len(d), 0)
         IN  Round(x.s * y.s, Trim(qr.q), x.e - y.e - DivShift * LimbBits, qr.r # 0)

----------------------------------------------------------------------------
(* Python values: None, str, numbers, exceptions and VariableRef objects.  *)

None == [t |-> "None"]

Str(v) == [t |-> "str", v |-> v]

List(v) == [t |-> "list", v |-> v]

Dict(v) == [t |-> "dict", v |-> v]

\* A raised exception: its class and, for a KeyError, the key it carries.
Exc(type, arg) == [t |-> "exc", type |-> type, arg |-> arg]

IsExc(x) == x.t = "exc"

IsRef(x) == x.t = "ref"

\* VariableRef.__init__: the fields of a new instance.
__init__(idx, name, basename) ==
    [t |-> "ref", idx |-> idx, name |-> name, basename |-> basename, mult |-> Num(1)]

\* VariableRef.is_kwarg
is_kwarg(self) == self.basename # None

\* Python's x * y, x / y and -x.  A VariableRef operand dispatches to
\* VariableRef.__mul__ (also bound as __rmul__), __truediv__ and __neg__, whose
\* in-place updates of temp.mult are again Python's * and /; the class defines
\* no __rtruediv__.
RECURSIVE PyMul(_, _), PyDiv(_, _), PyNeg(_)

\* __mul__ with the multiplier overwritten instead of scaled.
mul_overwrite(self, scalar) == [self EXCEPT !.mult = scalar]

\* VariableRef.__mul__ (and __rmul__): a copy of self with mult *= scalar.
__mul__(self, scalar) ==
    LET mult == PyMul(self.mult, scalar)
    IN  IF IsExc(mult) THEN mult ELSE [self EXCEPT !.mult = mult]

\* VariableRef.__truediv__: a copy of self with mult /= scalar.
__truediv__(self, scalar) ==
    LET mult == PyDiv(self.mult, scalar)
    IN  IF IsExc(mult) THEN mult ELSE [self EXCEPT !.mult = mult]

\* VariableRef.__neg__: a copy of self with mult = -mult.
__neg__(self) == [self EXCEPT !.mult = PyNeg(self.mult)]

PyMul(x, y) ==
    IF IsRef(x) THEN __mul__(x, y)
    ELSE IF IsNum(x) /\ IsRef(y) THEN __mul__(y, x)
    ELSE IF IsNum(x) /\ IsNum(y) THEN NumMul(x, y)
    ELSE Exc("TypeError", None)

PyDiv(x, y) ==
    IF IsRef(x) THEN __truediv__(x, y)
    ELSE IF IsNum(x) /\ IsNum(y)
         THEN IF y.s = 0 THEN Exc("ZeroDivisionError", None) ELSE NumDiv(x, y)
    ELSE Exc("TypeError", None)

PyNeg(x) ==
    IF IsRef(x) THEN __neg__(x)
    ELSE IF IsNum(x) THEN NumNeg(x)
    ELSE Exc("TypeError", None)

\* Python's x + y: the class defines neither __add__ nor __radd__.
PyAdd(x, y) == Exc("TypeError", None)

\* Python's x == y on the values the fields hold.
RECURSIVE PyEq(_, _)

\* __eq__ comparing basename itself instead of the is_kwarg flag.
eq_by_basename(self, other) ==
    IF ~IsRef(other) THEN FALSE
    ELSE /\ PyEq(self.name, other.name)
         /\ self.idx = other.idx
         /\ self.basename = other.basename
         /\ PyEq(self.mult, other.mult)

\* VariableRef.__eq__
__eq__(self, other) ==
    IF ~IsRef(other) THEN FALSE
    ELSE /\ PyEq(self.name, other.name)
         /\ self.idx = other.idx
         /\ is_kwarg(self) = is_kwarg(other)
         /\ PyEq(self.mult, other.mult)

PyEq(x, y) ==
    IF IsRef(x) THEN __eq__(x, y)
    ELSE IF IsRef(y) THEN __eq__(y, x)
    ELSE x.t = y.t /\ x = y

\* Python's seq[i] on a list (or None): negative offsets count from the end.
PyIndex(seq, i) ==
    IF seq.t # "list" THEN Exc("TypeError", None)
    ELSE IF 0 <= i /\ i < Len(seq.v) THEN seq.v[i + 1]
    ELSE IF -Len(seq.v) <= i /\ i < 0 THEN seq.v[Len(seq.v) + i + 1]
    ELSE Exc("IndexError", None)

\* Python's d[key] on a dict (or None).
PyGetItem(d, key) ==
    IF d.t # "dict" THEN Exc("TypeError", None)
    ELSE IF key \in DOMAIN d.v THEN d.v[key]
    ELSE Exc("KeyError", key)

\* Nesting of VariableRef values inside mult.
RECURSIVE Depth(_)
Depth(x) == IF IsRef(x) THEN 1 + Depth(x.mult) ELSE 0


\* val looking the keyword vector up under name instead of basename.
val_by_name(self) ==
    IF ~is_kwarg(self)
    THEN LET item == PyIndex(positional_arg_values, self.idx)
         IN  IF IsExc(item) THEN item ELSE PyMul(item, self.mult)
    ELSE LET values == PyGetItem(kwarg_values, self.name)
             item   == PyIndex(values, self.idx)
         IN  IF IsExc(values) THEN values
             ELSE IF IsExc(item) THEN item
             ELSE PyMul(item, self.mult)

\* val falling back to the positional values when the key is not populated.
val_with_fallback(self) ==
    LET found  == PyGetItem(kwarg_values, self.basename)
        values == IF ~is_kwarg(self) \/ IsExc(found) THEN positional_arg_values ELSE found
        item   == PyIndex(values, self.idx)
    IN  IF IsExc(item) THEN item ELSE PyMul(item, self.mult)

\* val without the multiplier on the keyword branch.
val_unscaled_kwarg(self) ==
    IF ~is_kwarg(self)
    THEN LET item == PyIndex(positional_arg_values, self.idx)
         IN  IF IsExc(item) THEN item ELSE PyMul(item, self.mult)
    ELSE LET values == PyGetItem(kwarg_values, self.basename)
         IN  IF IsExc(values) THEN values ELSE PyIndex(values, self.idx)

\* The body of VariableRef.val, with the two class-wide tables it reads as
\* parameters.
val_in(positional, keyword, self) ==
    IF ~is_kwarg(self)
    THEN LET item == PyIndex(positional, self.idx)
         IN  IF IsExc(item) THEN item ELSE PyMul(item, self.mult)
    ELSE LET values == PyGetItem(keyword, self.basename)
             item   == PyIndex(values, self.idx)
         IN  IF IsExc(values) THEN values
             ELSE IF IsExc(item) THEN item
             ELSE PyMul(item, self.mult)

\* VariableRef.val: the value the reference resolves to in the current tables.
val(self) == val_in(positional_arg_values, kwarg_values, self)

----------------------------------------------------------------------------
(* Bounds and inputs.                                                      *)

\* Instances created in one run of the composition operations.
MaxHeap == 3

\* Instances created in one run of the resolution and equality operations.
MaxRefs == 2

\* Longest value vector published.
MaxLen == 2

\* Deepest nesting of a VariableRef inside mult.
MaxDepth == 1

\* The scalars of the compositions.
Scalars == {Num(0), Num(3), Num(5)}

BaseNames == {Str("x"), Str("y")}

\* The execution cycles, told apart by the values they publish.
Cycles == {1, 2}

\* The key sets a call supplies keyword arguments for.
KeySets == {{Str("x")}, {Str("x"), Str("y")}}

\* The flattened positional arguments of cycle c, n of them.
PosVector(n, c) == List([i \in 1..n |-> Num(10 * c + i)])

\* The flattened keyword arguments of cycle c, n for each key of keys.
KwTable(keys, n, c) ==
    Dict([k \in keys |->
            List([i \in 1..n |-> Num((IF k = Str("x") THEN 100 ELSE 200) + 10 * c + i)])])

Ret(op, recv, arg, ret) ==
    [op |-> op, recv |-> recv, arg |-> arg, ret |-> ret, again |-> FALSE]

Obj(id) == [t |-> "obj", id |-> id]

Bool(v) == [t |-> "bool", v |-> v]

----------------------------------------------------------------------------
(* The operations.                                                         *)

Init ==
    /\ positional_arg_values = None
    /\ kwarg_values = None
    /\ heap = <<>>
    /\ last = Ret("init", 0, None, None)
    /\ runs = <<>>

\* VariableRef(idx, name, basename)
Construct(idx, name, basename) ==
    /\ heap' = Append(heap, __init__(idx, name, basename))
    /\ last' = Ret("new", 0, None, Obj(Len(heap) + 1))
    /\ UNCHANGED <<positional_arg_values, kwarg_values, runs>>

\* The outcome of an operator call that returns a new instance or raises.
Returned(op, recv, arg, res) ==
    IF IsExc(res)
    THEN /\ heap' = heap
         /\ last' = Ret(op, recv, arg, res)
    ELSE /\ heap' = Append(heap, res)
         /\ last' = Ret(op, recv, arg, Obj(Len(heap) + 1))

\* -heap[r]
Neg(r) ==
    /\ Returned("neg", r, None, PyNeg(heap[r]))
    /\ UNCHANGED <<positional_arg_values, kwarg_values, runs>>

\* heap[r] * scalar scaling the receiver itself instead of a copy.
MulInPlace(r, scalar) ==
    /\ IF IsExc(PyMul(heap[r], scalar))
       THEN heap' = heap /\ last' = Ret("mul", r, scalar, PyMul(heap[r], scalar))
       ELSE /\ heap' = [heap EXCEPT ![r] = PyMul(heap[r], scalar)]
            /\ last' = Ret("mul", r, scalar, Obj(r))
    /\ UNCHANGED <<positional_arg_values, kwarg_values, runs>>

\* heap[r] * scalar
Mul(r, scalar) ==
    /\ Returned("mul", r, scalar, PyMul(heap[r], scalar))
    /\ UNCHANGED <<positional_arg_values, kwarg_values, runs>>

\* scalar * heap[r]
RMul(scalar, r) ==
    /\ Returned("rmul", r, scalar, PyMul(scalar, heap[r]))
    /\ UNCHANGED <<positional_arg_values, kwarg_values, runs>>

\* heap[r] / scalar
TrueDiv(r, scalar) ==
    /\ Returned("truediv", r, scalar, PyDiv(heap[r], scalar))
    /\ UNCHANGED <<positional_arg_values, kwarg_values, runs>>

\* heap[r] + heap[o]
Add(r, o) ==
    /\ Returned("add", r, heap[o], PyAdd(heap[r], heap[o]))
    /\ UNCHANGED <<positional_arg_values, kwarg_values, runs>>

\* heap[r] == heap[o]
Compare(r, o) ==
    /\ last' = Ret("eq", r, Obj(o), Bool(PyEq(heap[r], heap[o])))
    /\ UNCHANGED <<positional_arg_values, kwarg_values, heap, runs>>

\* The binder's step before an execution: both tables are replaced wholesale.
SetVariables(keys, n, c) ==
    /\ positional_arg_values' = PosVector(n, c)
    /\ kwarg_values' = KwTable(keys, n, c)
    /\ last' = Ret("set", 0, None, None)
    /\ UNCHANGED <<heap, runs>>

\* heap[r].val storing the scaled value back into the positional vector.
ResolveInPlace(r) ==
    /\ last' = [Ret("val", r, None, val(heap[r])) EXCEPT
                  !.again = last.op = "val" /\ last.recv = r]
    /\ positional_arg_values' =
          IF is_kwarg(heap[r]) \/ IsExc(val(heap[r])) THEN positional_arg_values
          ELSE List([positional_arg_values.v EXCEPT
                       ![IF heap[r].idx >= 0 THEN heap[r].idx + 1
                         ELSE Len(positional_arg_values.v) + heap[r].idx + 1]
                          = val(heap[r])])
    /\ UNCHANGED <<kwarg_values, heap, runs>>

\* heap[r].val
Resolve(r) ==
    /\ last' = [Ret("val", r, None, val(heap[r])) EXCEPT
                  !.again = last.op = "val" /\ last.recv = r]
    /\ UNCHANGED <<positional_arg_values, kwarg_values, heap, runs>>

----------------------------------------------------------------------------
(* Construction and scalar composition.                                    *)

ComposeIdx == {-1, 0}

ComposeBasenames == {None, Str("x")}

Room == Len(heap) < MaxHeap

Next ==
    \/ \E idx \in ComposeIdx, basename \in ComposeBasenames :
          Room /\ Construct(idx, Str("p"), basename)
    \/ \E r \in DOMAIN heap : Room /\ Neg(r)
    \/ \E r \in DOMAIN heap, scalar \in Scalars : Room /\ Mul(r, scalar)
    \/ \E r \in DOMAIN heap, scalar \in Scalars : Room /\ RMul(scalar, r)
    \/ \E r \in DOMAIN heap, scalar \in Scalars : Room /\ TrueDiv(r, scalar)
    \/ \E r \in DOMAIN heap, o \in DOMAIN heap :
          Room /\ Depth(heap[r]) + Depth(heap[o]) <= MaxDepth + 1 /\ Mul(r, heap[o])
    \/ \E r \in DOMAIN heap, o \in DOMAIN heap : Add(r, o)



ArithOps == {"neg", "mul", "rmul", "truediv"}

\* What Python's operator gives for the multiplier of the result.
Composed(op, mult, scalar) ==
    IF op = "neg" THEN PyNeg(mult)
    ELSE IF op = "truediv" THEN PyDiv(mult, scalar)
    ELSE PyMul(mult, scalar)

\* C2: a negate, multiply (from either side) or divide by a scalar leaves every
\* existing instance, the receiver included, with the fields it had, and
\* returns a new instance that has the receiver's idx, name and basename and
\* the multiplier -mult, mult * scalar or mult / scalar.  (The one call that
\* returns nothing is a division by zero: it raises ZeroDivisionError, and
\* still changes no instance.)
C2_CompositionReturnsNewReference ==
    [][(last'.op \in ArithOps /\ (last'.op = "neg" \/ IsNum(last'.arg))) =>
          /\ \A i \in DOMAIN heap : i \in DOMAIN heap' /\ heap'[i] = heap[i]
          /\ IsExc(last'.ret) <=> (last'.op = "truediv" /\ last'.arg = Num(0))
          /\ IsExc(last'.ret) => heap' = heap
          /\ ~IsExc(last'.ret) =>
                /\ last'.ret = Obj(Len(heap) + 1)
                /\ DOMAIN heap' = 1..(Len(heap) + 1)
                /\ heap'[Len(heap) + 1].idx = heap[last'.recv].idx
                /\ heap'[Len(heap) + 1].name = heap[last'.recv].name
                /\ heap'[Len(heap) + 1].basename = heap[last'.recv].basename
                /\ heap'[Len(heap) + 1].mult =
                      Composed(last'.op, heap[last'.recv].mult, last'.arg)]_vars

\* C2 witness: one reference used twice, multiplied by 3 and then divided by
\* 5; it still has multiplier 1 and the two results are new instances.
C2_Witness ==
    /\ Len(heap) = 3
    /\ last.op = "truediv" /\ last.recv = 1 /\ last.ret = Obj(3)
    /\ heap[1].mult = Num(1)
    /\ heap[2] = [heap[1] EXCEPT !.mult = Num(3)]
    /\ heap[3] = [heap[1] EXCEPT !.mult = NumDiv(Num(1), Num(5))]

\* C4: a reference with a negative index is never created: the constructor
\* rejects every idx < 0.
C4_NegativeIndexRejected ==
    \A i \in DOMAIN heap : heap[i].idx >= 0

\* C7: an arithmetic operation between two references is rejected with an
\* error and returns no reference, so the multiplier of every reference is a
\* plain number.
C7_NoReferenceArithmetic ==
    /\ (last.op \in {"mul", "add"} /\ IsRef(last.arg)) => IsExc(last.ret)
    /\ \A i \in DOMAIN heap : IsNum(heap[i].mult)

Spec == Init /\ [][Next]_vars


----------------------------------------------------------------------------
(* Publication of the tables and resolution.                               *)

ValIdx == {-1, 0, 2}

ValBasenames == {None} \cup BaseNames

ValFactors == {Num(3)}

ValDivisors == {Num(5)}

RoomVal == Len(heap) < MaxRefs

NextVal ==
    \/ \E idx \in ValIdx, basename \in ValBasenames :
          RoomVal /\ Construct(idx, Str("p"), basename)
    \/ \E r \in DOMAIN heap : RoomVal /\ Neg(r)
    \/ \E r \in DOMAIN heap, scalar \in ValFactors : RoomVal /\ Mul(r, scalar)
    \/ \E r \in DOMAIN heap, scalar \in ValDivisors : RoomVal /\ TrueDiv(r, scalar)
    \/ \E keys \in KeySets, n \in 1..MaxLen, c \in Cycles : SetVariables(keys, n, c)
    \/ \E r \in DOMAIN heap : Resolve(r)

SpecVal == Init /\ [][NextVal]_vars

\* The reference's key is populated in the current kwarg_values.
Populated(self) ==
    kwarg_values.t = "dict" /\ self.basename \in DOMAIN kwarg_values.v

\* The vector the claims say a reference addresses in the current tables.
Addressed(self) ==
    IF self.basename = None THEN positional_arg_values
    ELSE IF Populated(self) THEN kwarg_values.v[self.basename]
    ELSE None

ValidIndex(self) ==
    /\ Addressed(self).t = "list"
    /\ 0 <= self.idx /\ self.idx < Len(Addressed(self).v)

\* C1: whatever replacements of the tables and compositions came before, val
\* of a reference with a valid index returns positional_arg_values[idx] * mult
\* of the current table when basename is None and kwarg_values[basename][idx]
\* * mult of the current table otherwise: never a value of the other
\* namespace or of an earlier table.
C1_ValReadsCurrentTable ==
    (last.op = "val" /\ ValidIndex(heap[last.recv])) =>
        last.ret = NumMul(Addressed(heap[last.recv]).v[heap[last.recv].idx + 1],
                          heap[last.recv].mult)

\* C1 witness: an auxiliary reference at offset 0 of "x", divided by 5 and
\* resolved against the tables of cycle 2.
C1_Witness ==
    /\ last.op = "val" /\ last.recv = 2
    /\ heap[2].basename = Str("x") /\ heap[2].idx = 0
    /\ heap[2].mult = NumDiv(Num(1), Num(5))
    /\ kwarg_values = KwTable({Str("x"), Str("y")}, 2, 2)
    /\ last.ret = NumMul(Num(121), NumDiv(Num(1), Num(5)))

\* C5: when idx is not a valid offset into the populated vector the reference
\* addresses, val fails with a bounds error: it never returns the scaled value
\* of some position of the vector.
C5_OutOfRangeFails ==
    (/\ last.op = "val"
     /\ Addressed(heap[last.recv]).t = "list"
     /\ ~ValidIndex(heap[last.recv])) => last.ret = Exc("IndexError", None)

\* C6 as stated: resolving an auxiliary reference whose basename is not
\* populated (key absent, or kwarg_values never set) fails with an error that
\* identifies the missing keyword parameter.
C6_MissingKeywordIdentified ==
    (/\ last.op = "val"
     /\ is_kwarg(heap[last.recv])
     /\ ~Populated(heap[last.recv])) =>
        last.ret = Exc("KeyError", heap[last.recv].basename)

\* C6 amended: resolving an auxiliary reference whose basename is not
\* populated always fails and changes neither table: with a KeyError carrying
\* the basename when the key is absent from the populated kwarg_values, with a
\* TypeError that names no parameter when kwarg_values was never set.  It
\* never returns a value, a default or a positional one.
C6_UnpopulatedKeyFails ==
    [][(/\ last'.op = "val"
        /\ is_kwarg(heap[last'.recv])
        /\ ~Populated(heap[last'.recv])) =>
          /\ last'.ret = IF kwarg_values.t = "dict"
                         THEN Exc("KeyError", heap[last'.recv].basename)
                         ELSE Exc("TypeError", None)
          /\ UNCHANGED <<positional_arg_values, kwarg_values, heap>>]_vars

\* C6 witness: "y" resolved while only "x" is populated.
C6_Witness ==
    /\ last.op = "val"
    /\ heap[last.recv].basename = Str("y")
    /\ kwarg_values = KwTable({Str("x")}, 2, 1)
    /\ last.ret = Exc("KeyError", Str("y"))

\* C8: a call of val changes neither table and no field of any reference; it
\* returns the value the reference resolves to in the tables as they are, and
\* no step other than a replacement of the tables changes the value any
\* existing reference resolves to.  So all the calls of val on one reference
\* between two replacements return the same value.
C8_ValIsPure ==
    [][/\ last'.op = "val" =>
            /\ UNCHANGED <<positional_arg_values, kwarg_values, heap>>
            /\ (last.op = "val" /\ last.recv = last'.recv) => last'.ret = last.ret
            /\ last'.ret = val(heap[last'.recv])
       /\ last'.op # "set" =>
            \A r \in DOMAIN heap :
                /\ r \in DOMAIN heap'
                /\ val_in(positional_arg_values', kwarg_values', heap'[r])
                     = val(heap[r])]_vars

\* C8 witness: the second consecutive resolution of a scaled reference that
\* has a valid index.
C8_Witness ==
    /\ last.op = "val" /\ last.again
    /\ ValidIndex(heap[last.recv])
    /\ heap[last.recv].mult = Num(3)
    /\ IsNum(last.ret)


----------------------------------------------------------------------------
(* Equality.                                                               *)

EqIdx == {0, 1}

EqNames == {Str("p"), Str("q")}

NextEq ==
    \/ \E idx \in EqIdx, name \in EqNames, basename \in ValBasenames :
          RoomVal /\ Construct(idx, name, basename)
    \/ \E r \in DOMAIN heap : RoomVal /\ Neg(r)
    \/ \E r \in DOMAIN heap, scalar \in ValFactors : RoomVal /\ Mul(r, scalar)
    \/ \E r \in DOMAIN heap, o \in DOMAIN heap : Compare(r, o)

SpecEq == Init /\ [][NextEq]_vars

\* C3: r1 == r2 holds exactly when name, idx, the is_kwarg flag (basename
\* present or absent) and mult are all equal; basename itself is not compared.
C3_EqualityIsStructural ==
    last.op = "eq" =>
        last.ret = Bool(/\ heap[last.recv].name = heap[last.arg.id].name
                        /\ heap[last.recv].idx = heap[last.arg.id].idx
                        /\ (heap[last.recv].basename = None)
                              = (heap[last.arg.id].basename = None)
                        /\ heap[last.recv].mult = heap[last.arg.id].mult)

\* C3 witness: two auxiliary references that differ only in basename have
\* been compared, and are equal.
C3_Witness ==
    /\ last.op = "eq" /\ last.recv # last.arg.id
    /\ heap[last.recv].basename = Str("x")
    /\ heap[last.arg.id].basename = Str("y")
    /\ heap[last.recv].name = heap[last.arg.id].name
    /\ heap[last.recv].idx = heap[last.arg.id].idx
    /\ last.ret = Bool(TRUE)

----------------------------------------------------------------------------
(* Composition of two scalar factors.                                      *)

\* The caller's (r * a) * b, r * (a * b), a * r and r * a, each resolved.
Associate(r, a, b) ==
    /\ LET right  == PyMul(heap[r], a)
             nested == PyMul(right, b)
             flat   == PyMul(heap[r], PyMul(a, b))
             left   == PyMul(a, heap[r])
       IN  last' = Ret("assoc", r, <<a, b>>,
                       [nested |-> nested, nestedVal |-> val(nested),
                        flat   |-> flat,   flatVal   |-> val(flat),
                        left   |-> left,   leftVal   |-> val(left),
                        right  |-> right,  rightVal  |-> val(right)])
    /\ UNCHANGED <<positional_arg_values, kwarg_values, heap, runs>>

AssocIdx == {0, 2}

AssocBasenames == {None, Str("x")}

AssocScalars == ValFactors \cup ValDivisors

NextAssoc ==
    \/ \E idx \in AssocIdx, basename \in AssocBasenames :
          RoomVal /\ Construct(idx, Str("p"), basename)
    \/ \E r \in DOMAIN heap, scalar \in ValFactors : RoomVal /\ Mul(r, scalar)
    \/ \E r \in DOMAIN heap, scalar \in ValDivisors : RoomVal /\ TrueDiv(r, scalar)
    \/ \E n \in 1..MaxLen, c \in Cycles : SetVariables({Str("x")}, n, c)
    \/ \E r \in DOMAIN heap, a \in AssocScalars, b \in AssocScalars : Associate(r, a, b)

SpecAssoc == Init /\ [][NextAssoc]_vars

SameSlot(x, y) == x.idx = y.idx /\ x.name = y.name /\ x.basename = y.basename

\* A number with no fractional part.
Integral(x) == IsNum(x) /\ x.e >= 0

\* C9 as stated: for every reference r and scalars a, b, (r * a) * b resolves
\* to the same value as r * (a * b), a * r to the same as r * a, and all of
\* them address r's slot.
C9_CompositionAssociates ==
    last.op = "assoc" =>
        /\ last.ret.nestedVal = last.ret.flatVal
        /\ last.ret.leftVal = last.ret.rightVal
        /\ SameSlot(last.ret.nested, heap[last.recv])
        /\ SameSlot(last.ret.flat, heap[last.recv])
        /\ SameSlot(last.ret.left, heap[last.recv])

\* C9 amended: a * r resolves to the same value as r * a, and r * a,
\* (r * a) * b and r * (a * b) address r's slot, for every r, a and b; (r * a)
\* * b resolves to the same value as r * (a * b) when r's multiplier and the
\* two scalars are integers, whose products are exact.  With a multiplier a
\* division has rounded, the two may differ in the last place.
C9_IntegralCompositionAssociates ==
    last.op = "assoc" =>
        /\ Integral(heap[last.recv].mult) => last.ret.nestedVal = last.ret.flatVal
        /\ last.ret.leftVal = last.ret.rightVal
        /\ SameSlot(last.ret.nested, heap[last.recv])
        /\ SameSlot(last.ret.flat, heap[last.recv])
        /\ SameSlot(last.ret.left, heap[last.recv])

\* C9 witness: a reference with multiplier 3, composed with 3 and 5 and
\* resolved at offset 0 of the positional values of cycle 1.
C9_Witness ==
    /\ last.op = "assoc" /\ last.arg = <<Num(3), Num(5)>>
    /\ heap[last.recv].mult = Num(3)
    /\ heap[last.recv].basename = None
    /\ last.ret.nestedVal = Num(11 * 45)
    /\ last.ret.flatVal = Num(11 * 45)

----------------------------------------------------------------------------
(* Two executions of one template.                                         *)

Executions == {1, 2}

\* The references embedded in the template, as construction and composition
\* built them.
FullTemplate ==
    << __init__(0, Str("p"), None),
       __mul__(__init__(1, Str("p"), None), Num(3)),
       __neg__(__init__(0, Str("p"), Str("x"))) >>

Templates == {SubSeq(FullTemplate, 1, k) : k \in 1..Len(FullTemplate)}

InitExec ==
    /\ positional_arg_values = None
    /\ kwarg_values = None
    /\ heap \in Templates
    /\ last = Ret("init", 0, None, None)
    /\ runs = [e \in Executions |->
                 [pc |-> "idle", next |-> 1, got |-> <<>>, clean |-> TRUE]]

\* Execution e publishes its arguments: the tables are class attributes, so
\* an execution that is resolving loses the values it published.
Publish(e) ==
    /\ runs[e].pc = "idle"
    /\ positional_arg_values' = PosVector(MaxLen, e)
    /\ kwarg_values' = KwTable({Str("x")}, MaxLen, e)
    /\ last' = Ret("set", 0, None, None)
    /\ runs' = [o \in Executions |->
                  IF o = e THEN [runs[o] EXCEPT !.pc = "resolving", !.clean = TRUE]
                  ELSE IF runs[o].pc = "resolving" THEN [runs[o] EXCEPT !.clean = FALSE]
                  ELSE runs[o]]
    /\ UNCHANGED heap

\* Execution e reads the parameter of the next reference of the template.
ResolveNext(e) ==
    /\ runs[e].pc = "resolving"
    /\ last' = Ret("val", runs[e].next, None, val(heap[runs[e].next]))
    /\ runs' = [runs EXCEPT
                  ![e].got = Append(@, [v |-> val(heap[runs[e].next]),
                                        clean |-> runs[e].clean]),
                  ![e].next = @ + 1,
                  ![e].pc = IF runs[e].next = Len(heap) THEN "done" ELSE "resolving"]
    /\ UNCHANGED <<positional_arg_values, kwarg_values, heap>>

NextExec ==
    \/ \E e \in Executions : Publish(e)
    \/ \E e \in Executions : ResolveNext(e)

SpecExec == InitExec /\ [][NextExec]_vars

\* The value of execution e's own arguments the reference stands for.
Own(e, self) ==
    NumMul((IF self.basename = None
            THEN PosVector(MaxLen, e)
            ELSE KwTable({Str("x")}, MaxLen, e).v[self.basename]).v[self.idx + 1],
           self.mult)

\* C10: a resolution made while no other execution has published since the
\* execution's own publish returns the value of its own arguments times mult.
\* (Without that discipline it may not: the witness is a state in which one
\* execution has read a value the other published.)
C10_DisciplinedResolutionReadsOwnValues ==
    \A e \in DOMAIN runs : \A i \in DOMAIN runs[e].got :
        runs[e].got[i].clean => runs[e].got[i].v = Own(e, heap[i])

\* C10 witness: execution 2 published and resolved undisturbed and read its
\* own value, while execution 1, which published before it, read the value
\* execution 2 published.
C10_Witness ==
    /\ Len(runs) = 2
    /\ Len(runs[1].got) >= 2 /\ Len(runs[2].got) >= 2
    /\ runs[2].got[2] = [v |-> Own(2, heap[2]), clean |-> TRUE]
    /\ runs[1].got[2] = [v |-> Own(2, heap[2]), clean |-> FALSE]
    /\ Own(1, heap[2]) # Own(2, heap[2])

============================================================================
